---- MODULE Spec2Model ----
(***************************************************************************)
(* Model of the declarative video composition of src/src/remotion:        *)
(* VideoComposition turns (manifest, frame) into an ordered tree of       *)
(* rendered elements.  A renderer (interactive preview, batch render)     *)
(* asks for frames in any order; each request re-evaluates the            *)
(* composition against the tree the renderer holds from its last request. *)
(***************************************************************************)
EXTENDS Integers, Sequences, FiniteSets, TLC

VARIABLES manifest, timeline, output, warnings, probe, probed,
          generationJob, asset, requests, falJob

vars == <<manifest, timeline, output, warnings, probe, probed,
          generationJob, asset, requests, falJob>>

-----------------------------------------------------------------------------
(* Bounds of the model *)

MaxFrame == 3
MaxLayer == 3
MaxClips == 3

StartFrames == {0, 1}
Durations == {1, 2}
BadDurations == {-1, 0}
Layers == 1..MaxLayer
Frames == 0..MaxFrame

-----------------------------------------------------------------------------
(* Values *)

\* a CSS property or prop that is not set (undefined)
Unset == <<>>

\* the null / undefined manifest prop
Null == [kind |-> "null"]

\* a renderer that has not rendered any frame yet
NotRendered == [status |-> "none", backgroundColor |-> <<>>, children |-> <<>>]

Rat(n, d) == <<"rat", n, d>>

Renderers == {"preview", "batch"}

TransitionDuration == 15

\* fps of the registered compositions, Root.tsx 13
Fps == 30

KnownComponents == {"KaraokeText", "BigTitle", "ImageOverlay", "LowerThird"}

\* createEmptyManifest of ./types: three empty tracks, black background
EmptyManifest ==
  [version |-> 1,
   tracks |-> [video |-> <<>>, audio |-> <<>>, components |-> <<>>],
   globalSettings |-> [backgroundColor |-> "#000000"]]

-----------------------------------------------------------------------------
(* Manifest fallback, Composition.tsx 39-43 *)

SafeManifestWhite(m) ==
  IF m = Null
  THEN [version |-> 1,
        tracks |-> [video |-> <<>>, audio |-> <<>>, components |-> <<>>],
        globalSettings |-> [backgroundColor |-> "#ffffff"]]
  ELSE m

SafeManifest(m) ==
  IF m = Null
  THEN [version |-> 1,
        tracks |-> [video |-> <<>>, audio |-> <<>>, components |-> <<>>],
        globalSettings |-> [backgroundColor |-> "#000000"]]
  ELSE m

-----------------------------------------------------------------------------
(* Layer sort, Composition.tsx 45-51: a copy of the track, sorted with the *)
(* comparator a.layer - b.layer by a stable sort.                          *)

CompareLayerDesc(a, b) == b.layer - a.layer

CompareLayer(a, b) == a.layer - b.layer

\* x is put before the first element it compares below: equal elements
\* keep the order in which they arrive
RECURSIVE InsertSorted(_, _)
InsertSorted(x, s) ==
  IF s = <<>> THEN <<x>>
  ELSE IF CompareLayer(x, Head(s)) < 0 THEN <<x>> \o s
  ELSE <<Head(s)>> \o InsertSorted(x, Tail(s))

RECURSIVE SortByLayer(_)
SortByLayer(s) ==
  IF s = <<>> THEN <<>>
  ELSE InsertSorted(s[Len(s)], SortByLayer(SubSeq(s, 1, Len(s) - 1)))

-----------------------------------------------------------------------------
(* Numbers.  Frames are integers; interpolated values are exact rationals  *)
(* <<"rat", n, d>> in lowest terms with d > 0.  Math.sin(x) * a is kept    *)
(* symbolic as <<"sin", x, a>>.                                            *)

Abs(n) == IF n < 0 THEN -n ELSE n

RECURSIVE Gcd(_, _)
Gcd(a, b) == IF b = 0 THEN a ELSE Gcd(b, a % b)

Norm(n, d) ==
  LET g == Gcd(Abs(n), Abs(d))
      sgn == IF d < 0 THEN -1 ELSE 1
  IN  Rat(sgn * (n \div g), sgn * (d \div g))

Num(v) == v[2]
Den(v) == v[3]

RatLess(v, w) == Num(v) * Den(w) < Num(w) * Den(v)

InterpolateNoOffset(v, in0, in1, out0, out1, clampRight) ==
  IF clampRight /\ RatLess(in1, v) THEN out1
  ELSE LET tn == Num(v) * Den(in0) - Num(in0) * Den(v)
           td == Den(v) * Den(in0)
           wn == Num(in1) * Den(in0) - Num(in0) * Den(in1)
           wd == Den(in1) * Den(in0)
           dn == Num(out1) * Den(out0) - Num(out0) * Den(out1)
           dd == Den(out1) * Den(out0)
       IN  Norm(tn * wd * dn, td * wn * dd)

\* remotion interpolate(input, [in0, in1], [out0, out1], options) for
\* in0 < in1: linear, extended to the left, clamped to out1 on the right
\* when extrapolateRight is 'clamp'
Interpolate(v, in0, in1, out0, out1, clampRight) ==
  IF clampRight /\ RatLess(in1, v) THEN out1
  ELSE LET tn == Num(v) * Den(in0) - Num(in0) * Den(v)
           td == Den(v) * Den(in0)
           \* t = (tn/td) / (in1 - in0)
           wn == Num(in1) * Den(in0) - Num(in0) * Den(in1)
           wd == Den(in1) * Den(in0)
           sn == tn * wd
           sd == td * wn
           dn == Num(out1) * Den(out0) - Num(out0) * Den(out1)
           dd == Den(out1) * Den(out0)
       IN  Norm(Num(out0) * sd * dd + sn * dn * Den(out0),
                Den(out0) * sd * dd)

Whole(n) == Rat(n, 1)

-----------------------------------------------------------------------------
(* Transition calculator, Composition.tsx 163-212.  A style is a record of *)
(* the three CSS properties the code sets; Unset is an absent property.    *)

Style(o, t, f) == [opacity |-> o, transform |-> t, filter |-> f]

ProgressUnclamped(frame, transitionStart, totalFrames) ==
  Interpolate(Whole(frame), Whole(transitionStart), Whole(totalFrames),
              Whole(0), Whole(1), FALSE)

ProgressOfClip(frame, transitionStart, totalFrames) ==
  Interpolate(Whole(frame), Whole(0), Whole(totalFrames),
              Whole(0), Whole(1), TRUE)

ProgressWithinClip(frame, transitionStart, totalFrames) ==
  Interpolate(Whole(frame),
              Whole(IF transitionStart < 0 THEN 0 ELSE transitionStart),
              Whole(totalFrames), Whole(0), Whole(1), TRUE)

\* Composition.tsx 173-175
Progress(frame, transitionStart, totalFrames) ==
  Interpolate(Whole(frame), Whole(transitionStart), Whole(totalFrames),
              Whole(0), Whole(1), TRUE)

BeforeWindowNever(frame, transitionStart) == FALSE

\* Composition.tsx 169
BeforeWindow(frame, transitionStart) == frame < transitionStart

GlitchOffsetFixed(frame) == <<"sin", 0, 5>>

\* Composition.tsx 201: Math.sin(frame * 10) * 5, kept symbolic
GlitchOffset(frame) == <<"sin", frame * 10, 5>>

calculateTransition(transition, frame, transitionStart, totalFrames) ==
  IF BeforeWindow(frame, transitionStart) THEN Style(Whole(1), Unset, Unset)
  ELSE
    LET progress == Progress(frame, transitionStart, totalFrames) IN
    CASE transition = "fade" ->
           Style(Interpolate(progress, Whole(0), Whole(1), Whole(1), Whole(0), FALSE),
                 Unset, Unset)
      [] transition = "slide-left" ->
           Style(Unset,
                 <<"translateX",
                   Interpolate(progress, Whole(0), Whole(1), Whole(0), Whole(-100), FALSE),
                   "%">>,
                 Unset)
      [] transition = "slide-right" ->
           Style(Unset,
                 <<"translateX",
                   Interpolate(progress, Whole(0), Whole(1), Whole(0), Whole(100), FALSE),
                   "%">>,
                 Unset)
      [] transition = "zoom" ->
           Style(Interpolate(progress, Whole(0), Whole(1), Whole(1), Whole(0), FALSE),
                 <<"scale",
                   Interpolate(progress, Whole(0), Whole(1), Whole(1), Rat(3, 2), FALSE),
                   "">>,
                 Unset)
      [] transition = "glitch" ->
           Style(Unset,
                 <<"translateX", GlitchOffset(frame), "px">>,
                 IF RatLess(Rat(1, 2), progress)
                 THEN <<[fn |-> "hue-rotate", value |-> Whole(90), unit |-> "deg"]>>
                 ELSE Unset)
      [] OTHER -> Style(Whole(1), Unset, Unset)

-----------------------------------------------------------------------------
(* Video clip, Composition.tsx 101-157 *)

EffectFilters == {"brightness", "contrast", "saturation", "blur", "grayscale"}

\* one filter primitive per effect of a recognised type, Composition.tsx 112-128
EffectFilter(effect) ==
  [fn |-> IF effect.type = "saturation" THEN "saturate" ELSE effect.type,
   value |-> effect.value,
   unit |-> IF effect.type = "blur" THEN "px" ELSE ""]

RECURSIVE FilterStyleReversed(_)
FilterStyleReversed(effects) ==
  IF effects = <<>> THEN <<>>
  ELSE FilterStyleReversed(Tail(effects))
       \o (IF Head(effects).type \in EffectFilters
           THEN <<EffectFilter(Head(effects))>> ELSE <<>>)

RECURSIVE FilterStyle(_)
FilterStyle(effects) ==
  IF effects = <<>> THEN <<>>
  ELSE (IF Head(effects).type \in EffectFilters
        THEN <<EffectFilter(Head(effects))>> ELSE <<>>)
       \o FilterStyle(Tail(effects))

TransitionOrFade(clip) == IF clip.transition = "" THEN "fade" ELSE clip.transition

\* clip.transition || 'cut': an omitted transition is the empty string here
TransitionOf(clip) == IF clip.transition = "" THEN "cut" ELSE clip.transition

\* {...transitionStyle, filter: filterStyle || undefined}
ClipStyle(clip, frame) ==
  LET transitionStart == clip.durationFrames - TransitionDuration
      transitionStyle == calculateTransition(TransitionOf(clip), frame,
                                             transitionStart, clip.durationFrames)
      filterStyle == FilterStyle(clip.effects)
  IN  [transitionStyle EXCEPT
         !.filter = IF filterStyle # <<>> THEN filterStyle ELSE Unset]

\* <Video> inside the styled AbsoluteFill
VideoClipComponent(clip, frame) ==
  [tag |-> "Video", src |-> clip.url, style |-> ClipStyle(clip, frame)]

\* the values one evaluation of VideoClipComponent computes on its way:
\* transitionStart (106), progress (173, in the window only), the style
\* calculateTransition returns (133-138) and the style of the clip (141-146)
VideoClipEvaluation(clip, frame) ==
  LET transitionStart == clip.durationFrames - TransitionDuration IN
  [transitionStart |-> transitionStart,
   progress |-> IF BeforeWindow(frame, transitionStart) THEN Unset
                ELSE Progress(frame, transitionStart, clip.durationFrames),
   transitionStyle |-> calculateTransition(TransitionOf(clip), frame,
                                           transitionStart, clip.durationFrames),
   style |-> VideoClipComponent(clip, frame).style]

-----------------------------------------------------------------------------
(* Overlay components.  Props are a record that holds the props given;   *)
(* a prop that was not given is a missing field.                          *)

HasProp(props, name) == name \in DOMAIN props

Prop(props, name, default) == IF HasProp(props, name) THEN props[name] ELSE default

\* remotion interpolate throws when its input range does not increase
InterpolateThrows(in0, in1) == ~(in0 < in1)

Floor(v) == Num(v) \div Den(v)

Min(a, b) == IF a <= b THEN a ELSE b

\* text.slice(0, end), BigTitle.tsx 102-104
Slice(text, end) == SubSeq(text, 1, Min(end, Len(text)))

\* BigTitle.tsx 84-89: Math.floor(interpolate(frame, [0, text.length * 3],
\* [0, text.length], clamp)); text is a sequence of characters
CharsToShow(text, frame) ==
  Floor(Interpolate(Whole(frame), Whole(0), Whole(Len(text) * 3),
                    Whole(0), Whole(Len(text)), TRUE))

\* spring({frame, fps, config}) mapped by interpolate(progress, [0, 1],
\* [from, to]): the spring is 0 at frame 0, which maps to `from`; its later
\* values are kept symbolic
Spring(frame, damping, stiffness, from, to) ==
  IF frame = 0 THEN from
  ELSE <<"spring", frame, damping, stiffness, from, to>>

FadeInUnclamped(frame, frames, target) ==
  Interpolate(Whole(frame), Whole(0), Whole(frames), Whole(0), target, FALSE)

FadeInToOne(frame, frames, target) ==
  Interpolate(Whole(frame), Whole(0), Whole(frames), Whole(0), Whole(1), TRUE)

\* interpolate(frame, [0, frames], [0, target], {extrapolateRight: 'clamp'})
FadeIn(frame, frames, target) ==
  Interpolate(Whole(frame), Whole(0), Whole(frames), Whole(0), target, TRUE)

\* BigTitle.tsx 41-97
getAnimationStyles(props, frame) ==
  LET animation == Prop(props, "animation", "fade") IN
  CASE animation = "fade" ->
         [opacity |-> FadeIn(frame, 20, Whole(1)),
          transform |-> Unset, chars |-> Unset]
    [] animation = "slide-up" ->
         [opacity |-> FadeIn(frame, 10, Whole(1)),
          transform |-> <<"translateY", Spring(frame, 12, 100, Whole(100), Whole(0)), "px">>,
          chars |-> Unset]
    [] animation = "scale" ->
         [opacity |-> FadeIn(frame, 10, Whole(1)),
          transform |-> <<"scale", Spring(frame, 10, 80, Rat(1, 2), Whole(1)), "">>,
          chars |-> Unset]
    [] animation = "typewriter" ->
         [opacity |-> Unset, transform |-> Unset,
          chars |-> <<CharsToShow(props.text, frame)>>]
    [] OTHER -> [opacity |-> Whole(1), transform |-> Unset, chars |-> Unset]

\* BigTitle.tsx 16-135; text.length of a missing text and an empty input
\* range of interpolate both throw
BigTitleThrows(props, frame) ==
  /\ Prop(props, "animation", "fade") = "typewriter"
  /\ \/ ~HasProp(props, "text")
     \/ InterpolateThrows(0, Len(props.text) * 3)

BigTitle(props, frame) ==
  LET animationStyles == getAnimationStyles(props, frame)
      text == Prop(props, "text", <<>>)
  IN  [displayText |->
         IF Prop(props, "animation", "fade") = "typewriter"
         THEN Slice(text, animationStyles.chars[1])
         ELSE text,
       style |-> animationStyles]

\* KaraokeText.tsx 22-23: frame / fps, exact
CurrentTime(frame, fps) == Norm(frame, fps)

RatLeq(v, w) == ~RatLess(w, v)

\* KaraokeText.tsx 64-66
IsActiveOpenEnd(wordData, currentTime) ==
  RatLeq(wordData.start, currentTime) /\ RatLess(currentTime, wordData.end)

IsActiveOpenStart(wordData, currentTime) ==
  RatLess(wordData.start, currentTime) /\ RatLeq(currentTime, wordData.end)

IsActive(wordData, currentTime) ==
  RatLeq(wordData.start, currentTime) /\ RatLeq(currentTime, wordData.end)

IsPastFromEnd(wordData, currentTime) == RatLeq(wordData.end, currentTime)

IsPast(wordData, currentTime) == RatLess(wordData.end, currentTime)

\* wordTimestamps.map of a missing wordTimestamps throws
KaraokeTextThrows(props, frame) == ~HasProp(props, "wordTimestamps")

\* KaraokeText.tsx 63-84: one span per word
KaraokeText(props, frame) ==
  LET currentTime == CurrentTime(frame, Fps)
      words == props.wordTimestamps
  IN  [i \in 1..Len(words) |->
         LET isActive == IsActive(words[i], currentTime)
             isPast == IsPast(words[i], currentTime)
         IN  [word |-> words[i].word,
              isActive |-> isActive,
              isPast |-> isPast,
              highlighted |-> isActive \/ isPast,
              bold |-> isActive,
              glow |-> isActive]]

\* ImageOverlay.tsx 10-47: the fade-in of the image to its target opacity
ImageOverlay(props, frame) ==
  [src |-> Prop(props, "src", Unset),
   opacity |-> FadeIn(frame, 15, Prop(props, "opacity", Whole(1)))]

\* ImageOverlay.tsx 145-147: interpolate(frame, [10, 20], [0, 1],
\* {extrapolateRight: 'clamp'}), extended to the left
SubtitleOpacity(frame) ==
  Interpolate(Whole(frame), Whole(10), Whole(20), Whole(0), Whole(1), TRUE)

\* ImageOverlay.tsx 84-98
getHorizontalPosition(position, slideX) ==
  CASE position = "right" -> [right |-> "5%", left |-> "auto", transform |-> Unset]
    [] position = "center" ->
         [right |-> Unset, left |-> "50%",
          transform |-> <<"translateX", <<"calc", "-50%", slideX>>, "px">>]
    [] OTHER -> [right |-> "auto", left |-> "5%", transform |-> Unset]

\* LowerThird, ImageOverlay.tsx 66-166
LowerThird(props, frame) ==
  LET position == Prop(props, "position", "left")
      slideX == Spring(frame, 15, 100, Whole(-100), Whole(0))
      horizontalPos == getHorizontalPosition(position, slideX)
  IN  [title |-> Prop(props, "title", Unset),
       position |-> position,
       slideX |-> slideX,
       style |-> [horizontalPos EXCEPT
                    !.transform = IF position = "center" THEN horizontalPos.transform
                                  ELSE <<"translateX", slideX, "px">>],
       subtitle |-> IF HasProp(props, "subtitle") /\ props.subtitle # ""
                    THEN <<[text |-> props.subtitle, opacity |-> SubtitleOpacity(frame)]>>
                    ELSE <<>>]

-----------------------------------------------------------------------------
(* Component renderer, Composition.tsx 222-242 *)

\* the component the switch chose throws while it renders
ComponentThrows(component, frame) ==
  CASE component.component = "KaraokeText" -> KaraokeTextThrows(component.props, frame)
    [] component.component = "BigTitle" -> BigTitleThrows(component.props, frame)
    [] OTHER -> FALSE

ComponentContent(component, frame) ==
  CASE component.component = "KaraokeText" /\ ~KaraokeTextThrows(component.props, frame) ->
         KaraokeText(component.props, frame)
    [] component.component = "BigTitle" /\ ~BigTitleThrows(component.props, frame) ->
         <<BigTitle(component.props, frame)>>
    [] component.component = "ImageOverlay" -> <<ImageOverlay(component.props, frame)>>
    [] component.component = "LowerThird" -> <<LowerThird(component.props, frame)>>
    [] OTHER -> <<>>

ComponentRendererPassThrough(component, frame) ==
  [tag |-> component.component, src |-> "", style |-> Unset,
   content |-> ComponentContent(component, frame)]

\* the element the switch returns; "null" after the default branch
ComponentRenderer(component, frame) ==
  IF component.component \in KnownComponents
  THEN [tag |-> component.component, src |-> "", style |-> Unset,
        content |-> ComponentContent(component, frame)]
  ELSE [tag |-> "null", src |-> "", style |-> Unset, content |-> <<>>]

\* console.warn of the default branch
ComponentWarnings(component) ==
  IF component.component \in KnownComponents
  THEN <<>>
  ELSE << <<"Unknown component type", component.component>> >>

AudioComponent(audio) ==
  [tag |-> "Audio", src |-> audio.url, style |-> [volume |-> audio.volume]]

-----------------------------------------------------------------------------
(* remotion <Sequence from durationInFrames>, as used at Composition.tsx   *)
(* 59-63, 70-74, 81-85: it throws a TypeError when durationInFrames <= 0,  *)
(* mounts its children on the frames from .. from + durationInFrames - 1   *)
(* and gives them the frame counted from `from`.                           *)

SequenceThrows(item) == item.durationFrames <= 0

SequenceActiveInclusiveEnd(item, f) ==
  /\ item.startFrame <= f
  /\ f <= item.startFrame + item.durationFrames

SequenceActiveNoEnd(item, f) == item.startFrame <= f

SequenceActive(item, f) ==
  /\ item.startFrame <= f
  /\ f <= item.startFrame + item.durationFrames - 1

LocalFrameGlobal(item, f) == f

LocalFrame(item, f) == f - item.startFrame

-----------------------------------------------------------------------------
(* Main composition, Composition.tsx 37-91 *)

NoElement == [track |-> "none"]

\* track.sort(...): the array it is called on is sorted in place
SortInPlace(track) == [given |-> SortByLayer(track), sorted |-> SortByLayer(track)]

\* [...track].sort(...), Composition.tsx 46-51: the sort works on a copy
SortedCopy(track) == [given |-> track, sorted |-> SortByLayer(track)]

Tagged(track, s) == [i \in 1..Len(s) |-> [track |-> track, item |-> s[i]]]

RenderOrderOverlaysFirst(sm) ==
  Tagged("components", SortedCopy(sm.tracks.components).sorted)
    \o Tagged("video", SortedCopy(sm.tracks.video).sorted)
    \o Tagged("audio", sm.tracks.audio)

\* the <Sequence> children of the AbsoluteFill in document order: the video
\* track sorted by layer, the component track sorted by layer, the audio
\* track as it is
RenderOrder(sm) ==
  Tagged("video", SortedCopy(sm.tracks.video).sorted)
    \o Tagged("components", SortedCopy(sm.tracks.components).sorted)
    \o Tagged("audio", sm.tracks.audio)

\* the element a renderer holds for this sequence from its last render
PrevElement(prev, t) ==
  IF prev.status = "ok"
       /\ \E i \in 1..Len(prev.children) :
            prev.children[i].track = t.track /\ prev.children[i].item.id = t.item.id
  THEN LET i == CHOOSE i \in 1..Len(prev.children) :
                  prev.children[i].track = t.track /\ prev.children[i].item.id = t.item.id
       IN  prev.children[i]
  ELSE NoElement

useCurrentFrameAtMount(prevEl, local) ==
  IF prevEl = NoElement THEN local ELSE prevEl.frame

\* useCurrentFrame() inside a Sequence: the frame of this evaluation,
\* whatever the mounted instance saw before
useCurrentFrame(prevEl, local) == local

Element(prev, t, f) ==
  LET fr == useCurrentFrame(PrevElement(prev, t), LocalFrame(t.item, f)) IN
  [track |-> t.track, item |-> t.item, frame |-> fr,
   rendered |-> CASE t.track = "video" -> VideoClipComponent(t.item, fr)
                  [] t.track = "components" -> ComponentRenderer(t.item, fr)
                  [] t.track = "audio" -> AudioComponent(t.item)]

RECURSIVE Children(_, _, _)
Children(prev, order, f) ==
  IF order = <<>> THEN <<>>
  ELSE (IF SequenceActive(Head(order).item, f)
        THEN <<Element(prev, Head(order), f)>> ELSE <<>>)
       \o Children(prev, Tail(order), f)

\* an error thrown while this child of the AbsoluteFill renders; nothing in
\* the composition catches it
ChildThrows(t, f) ==
  \/ SequenceThrows(t.item)
  \/ /\ t.track = "components"
     /\ SequenceActive(t.item, f)
     /\ ComponentThrows(t.item, LocalFrame(t.item, f))

\* console output of the component renderers that ran, in render order,
\* up to the first child that throws
RECURSIVE Warned(_, _)
Warned(order, f) ==
  IF order = <<>> \/ ChildThrows(Head(order), f) THEN <<>>
  ELSE (IF Head(order).track = "components" /\ SequenceActive(Head(order).item, f)
        THEN ComponentWarnings(Head(order).item) ELSE <<>>)
       \o Warned(Tail(order), f)

Tree(status, bg, children) ==
  [status |-> status, backgroundColor |-> bg, children |-> children]

VideoComposition(prev, m, f) ==
  LET safeManifest == SafeManifest(m)
      order == RenderOrder(safeManifest)
  IN  [tree |-> IF \E i \in 1..Len(order) : ChildThrows(order[i], f)
                THEN Tree("error", Unset, <<>>)
                ELSE Tree("ok", safeManifest.globalSettings.backgroundColor,
                          Children(prev, order, f)),
       warnings |-> Warned(order, f),
       manifest |-> IF m = Null THEN m
                    ELSE [m EXCEPT !.tracks.video = SortedCopy(@).given,
                                   !.tracks.components = SortedCopy(@).given]]

-----------------------------------------------------------------------------
(* Manifests given to the composition *)

VideoIds == <<"v1", "v2", "v3", "v4", "v5">>
ComponentIds == <<"c1", "c2", "c3", "c4", "c5">>

ComponentTags == KnownComponents \cup {"Sticker"}

VideoClip(id, s, d, l, t) ==
  [id |-> id, url |-> id, startFrame |-> s, durationFrames |-> d, layer |-> l,
   transition |-> t, effects |-> <<>>]

Word(w, start, end) == [word |-> w, start |-> start, end |-> end]

\* props of the shape the component tag asks for
PropsOf(c) ==
  CASE c = "KaraokeText" ->
         [wordTimestamps |-> <<Word("Hi", Rat(0, 1), Rat(1, 2)),
                               Word("there", Rat(1, 2), Rat(1, 1))>>]
    [] c = "BigTitle" -> [text |-> <<"H", "i">>, animation |-> "typewriter"]
    [] c = "ImageOverlay" -> [src |-> "logo.png"]
    [] c = "LowerThird" -> [title |-> "Title"]
    [] OTHER -> <<>>

Overlay(id, s, d, l, c, props) ==
  [id |-> id, startFrame |-> s, durationFrames |-> d, layer |-> l,
   component |-> c, props |-> props]

ComponentOverlay(id, s, d, l, c) == Overlay(id, s, d, l, c, PropsOf(c))

AudioClip(id, s, d) ==
  [id |-> id, url |-> id, startFrame |-> s, durationFrames |-> d, volume |-> Whole(1)]

Manifest(video, audio, components, bg) ==
  [version |-> 1,
   tracks |-> [video |-> video, audio |-> audio, components |-> components],
   globalSettings |-> [backgroundColor |-> bg]]

\* at most one element on each track, every field varied
MixedManifests(durs, layers, tags) ==
  LET videos == {<<>>} \cup
        {<<VideoClip("v1", s, d, l, "fade")>> :
           s \in StartFrames, d \in durs, l \in layers}
      comps == {<<>>} \cup
        {<<ComponentOverlay("c1", s, d, l, c)>> :
           s \in StartFrames, d \in durs, l \in layers, c \in tags}
      audios == {<<>>} \cup
        {<<AudioClip("a1", s, d)>> : s \in StartFrames, d \in durs}
  IN  {Manifest(v, a, c, "#102030") : v \in videos, a \in audios, c \in comps}

\* two elements on one visual track, windows and layers independent
PairManifests ==
  LET slots == StartFrames \X Durations \X Layers IN
  UNION {
    { Manifest(<<VideoClip("v1", p[1], p[2], p[3], ""),
                 VideoClip("v2", q[1], q[2], q[3], "zoom")>>,
               <<>>, <<>>, "#102030"),
      Manifest(<<>>, <<>>,
               <<ComponentOverlay("c1", p[1], p[2], p[3], "KaraokeText"),
                 ComponentOverlay("c2", q[1], q[2], q[3], "LowerThird")>>,
               "#102030") }
    : p \in slots, q \in slots }

\* one visual track stacked with up to MaxClips elements that share the
\* window [0, 2), of any layers
StackedManifests ==
  UNION {
    { Manifest([i \in 1..n |-> VideoClip(VideoIds[i], 0, 2, ch[i], "glitch")],
               <<>>, <<>>, "#102030"),
      Manifest(<<>>, <<>>,
               [i \in 1..n |-> ComponentOverlay(ComponentIds[i], 0, 2, ch[i],
                                                "ImageOverlay")],
               "#102030") }
    : n \in 1..MaxClips, ch \in [1..MaxClips -> Layers] }

\* manifests that satisfy the data model: durationFrames > 0
Manifests ==
  {Null, EmptyManifest}
    \cup MixedManifests(Durations, {1, MaxLayer}, {"BigTitle", "Sticker"})
    \cup PairManifests \cup StackedManifests

\* manifests whose elements may break durationFrames > 0
AnyManifests == MixedManifests(Durations \cup BadDurations, {1, 2}, {"BigTitle"})

-----------------------------------------------------------------------------
(* Renderers *)

TypeOK ==
  /\ timeline \in [Renderers -> -1..MaxFrame]
  /\ DOMAIN output = Renderers
  /\ DOMAIN warnings = Renderers

NoProbe == [kind |-> "none"]

\* no generation job, no request to the server
NoServer ==
  /\ generationJob = <<>>
  /\ asset = <<>>
  /\ requests = <<>>
  /\ falJob = <<>>

NotStarted ==
  /\ timeline = [r \in Renderers |-> -1]
  /\ output = [r \in Renderers |-> NotRendered]
  /\ warnings = [r \in Renderers |-> <<>>]

Start ==
  /\ NotStarted
  /\ probe = NoProbe
  /\ probed = NoProbe
  /\ NoServer

Init == manifest \in Manifests /\ Start

InitAny == manifest \in AnyManifests /\ Start

\* one evaluation of the composition at frame f by renderer r
Render(r, f) ==
  LET res == VideoComposition(output[r], manifest, f) IN
  /\ timeline' = [timeline EXCEPT ![r] = f]
  /\ output' = [output EXCEPT ![r] = res.tree]
  /\ warnings' = [warnings EXCEPT ![r] = res.warnings]
  /\ manifest' = res.manifest
  /\ UNCHANGED <<probe, probed, generationJob, asset, requests, falJob>>

\* the interactive preview seeks to any frame, in any order
Seek == \E f \in Frames : Render("preview", f)

\* the batch render walks the frames it was given in ascending order
BatchRender ==
  \E f \in Frames : timeline["batch"] < f /\ Render("batch", f)

Next == Seek \/ BatchRender

Spec == Init /\ [][Next]_vars

SpecAny == InitAny /\ [][Next]_vars

-----------------------------------------------------------------------------
(* One video clip evaluated on its own, frame by frame: VideoClipComponent *)
(* as a function of the clip and the local frame                           *)

MaxDuration == 17

Transitions ==
  {"", "cut", "wipe", "fade", "slide-left", "slide-right", "zoom", "glitch"}

Effect(type, value) == [type |-> type, value |-> value]

EffectLists ==
  {<<>>, <<Effect("sepia", Whole(1))>>,
   <<Effect("brightness", Rat(3, 2)), Effect("blur", Whole(4))>>,
   <<Effect("saturation", Whole(2)), Effect("sepia", Whole(1)),
     Effect("contrast", Rat(1, 2)), Effect("grayscale", Whole(1))>>}

ProbeClips ==
  {[VideoClip("v1", 0, d, 1, t) EXCEPT !.effects = e] :
     d \in 1..MaxDuration, t \in Transitions, e \in EffectLists}

\* the local frames of the longest clip and two frames past its end
LocalFrames == 0..(MaxDuration + 1)

InitClip ==
  /\ manifest = Null
  /\ NotStarted
  /\ \E clip \in ProbeClips : probe = [kind |-> "clip", clip |-> clip, frame |-> -1]
  /\ probed = NoProbe
  /\ NoServer

EvaluateClip(frame) ==
  /\ probe' = [probe EXCEPT !.frame = frame]
  /\ probed' = VideoClipEvaluation(probe.clip, frame)
  /\ UNCHANGED <<manifest, timeline, output, warnings,
                 generationJob, asset, requests, falJob>>

\* playback: the next local frame
PlayClip == probe.frame + 1 \in LocalFrames /\ EvaluateClip(probe.frame + 1)

\* scrubbing: any local frame
SeekClip == \E frame \in LocalFrames : EvaluateClip(frame)

NextClip == PlayClip \/ SeekClip

SpecClip == InitClip /\ [][NextClip]_vars

-----------------------------------------------------------------------------
(* Properties *)

HasRendered(r) == timeline[r] >= 0

\* the window of the data model: [startFrame, startFrame + durationFrames)
InWindow(item, f) ==
  item.startFrame <= f /\ f < item.startFrame + item.durationFrames

TrackNames == {"video", "components", "audio"}

TrackOf(m, track) ==
  CASE track = "video" -> m.tracks.video
    [] track = "components" -> m.tracks.components
    [] track = "audio" -> m.tracks.audio

\* the given manifest, or three empty tracks when none was given
GivenTracks ==
  IF manifest = Null THEN Manifest(<<>>, <<>>, <<>>, "#000000") ELSE manifest

InTree(tree, track, id) ==
  \E i \in 1..Len(tree.children) :
    tree.children[i].track = track /\ tree.children[i].item.id = id

IndexOf(s, id) == CHOOSE i \in 1..Len(s) : s[i].id = id

\* C2: whatever frames a renderer evaluated before, and whatever the other
\* renderer is doing, the tree and the console output it holds for its
\* current frame are those of an evaluation that starts from nothing.
C2_HistoryIndependent ==
  \A r \in Renderers :
    HasRendered(r) =>
      /\ output[r] = VideoComposition(NotRendered, manifest, timeline[r]).tree
      /\ warnings[r] = VideoComposition(NotRendered, manifest, timeline[r]).warnings

\* the preview holds a clip at its second local frame while the batch
\* render is at another frame of the same manifest
C2_Witness ==
  /\ HasRendered("batch") /\ timeline["batch"] # timeline["preview"]
  /\ \E i \in 1..Len(output["preview"].children) :
       /\ output["preview"].children[i].track = "video"
       /\ output["preview"].children[i].frame = 1

\* C3: an element with durationFrames > 0 is in the rendered tree of frame f
\* exactly when startFrame <= f < startFrame + durationFrames.
C3_ActivationWindow ==
  \A r \in Renderers :
    HasRendered(r) =>
      \A track \in TrackNames :
        \A i \in 1..Len(TrackOf(GivenTracks, track)) :
          LET item == TrackOf(GivenTracks, track)[i] IN
          item.durationFrames > 0 =>
            (InTree(output[r], track, item.id) <=> InWindow(item, timeline[r]))

\* a clip with startFrame 1 and durationFrames 2: rendered at its last frame
\* 2 by one renderer and not rendered at frame 3 by the other
C3_Witness ==
  /\ manifest # Null
  /\ Len(manifest.tracks.video) = 1
  /\ manifest.tracks.video[1].startFrame = 1
  /\ manifest.tracks.video[1].durationFrames = 2
  /\ timeline["batch"] = 2 /\ InTree(output["batch"], "video", "v1")
  /\ timeline["preview"] = 3 /\ ~InTree(output["preview"], "video", "v1")

\* C4: the frame an active clip or overlay sees is f - startFrame, between
\* 0 and durationFrames - 1, and the clip's style is computed from it.
C4_LocalFrame ==
  \A r \in Renderers :
    \A i \in 1..Len(output[r].children) :
      LET el == output[r].children[i] IN
      el.track \in {"video", "components"} =>
        /\ el.frame = timeline[r] - el.item.startFrame
        /\ 0 <= el.frame /\ el.frame <= el.item.durationFrames - 1
        /\ (timeline[r] = el.item.startFrame => el.frame = 0)
        /\ (timeline[r] = el.item.startFrame + el.item.durationFrames - 1
              => el.frame = el.item.durationFrames - 1)
        /\ (el.track = "video" =>
              el.rendered.style = ClipStyle(el.item, timeline[r] - el.item.startFrame))

\* an overlay that starts at frame 1, seen at its first frame by one
\* renderer (local 0) and at its last frame by the other (local 1)
C4_Witness ==
  \E i \in 1..Len(output["preview"].children),
     j \in 1..Len(output["batch"].children) :
    LET a == output["preview"].children[i]
        b == output["batch"].children[j]
    IN  /\ a.track = "components" /\ b.track = "components"
        /\ a.item.startFrame = 1 /\ a.item.durationFrames = 2
        /\ timeline["preview"] = 1 /\ a.frame = 0
        /\ timeline["batch"] = 2 /\ b.frame = 1

\* C5: within the video track and within the component track the rendered
\* elements are in ascending layer order, equal layers in manifest order.
C5_LayerOrder ==
  \A r \in Renderers :
    \A i, j \in 1..Len(output[r].children) :
      LET a == output[r].children[i]
          b == output[r].children[j]
      IN  (i < j /\ a.track = b.track /\ a.track \in {"video", "components"}) =>
            /\ a.item.layer <= b.item.layer
            /\ (a.item.layer = b.item.layer =>
                  IndexOf(TrackOf(GivenTracks, a.track), a.item.id)
                    < IndexOf(TrackOf(GivenTracks, a.track), b.item.id))

\* clips with layers [3, 1, 2] in one window are painted in the order 1, 2, 3
C5_Witness ==
  /\ manifest # Null
  /\ Len(manifest.tracks.video) = 3
  /\ [i \in 1..3 |-> manifest.tracks.video[i].layer] = <<3, 1, 2>>
  /\ Len(output["preview"].children) = 3
  /\ [i \in 1..3 |-> output["preview"].children[i].item.id] = <<"v2", "v3", "v1">>

\* C6: the background is the root fill and every rendered overlay comes
\* after every rendered video clip, whatever their layers.
C6_TracksOrder ==
  \A r \in Renderers :
    HasRendered(r) =>
      /\ output[r].backgroundColor = GivenTracks.globalSettings.backgroundColor
      /\ \A i, j \in 1..Len(output[r].children) :
           (output[r].children[i].track = "video"
              /\ output[r].children[j].track = "components") => i < j

\* a video clip on layer 3 is painted below an overlay on layer 1
C6_Witness ==
  \E i, j \in 1..Len(output["preview"].children) :
    LET a == output["preview"].children[i]
        b == output["preview"].children[j]
    IN  /\ a.track = "video" /\ a.item.layer = 3
        /\ b.track = "components" /\ b.item.layer = 1
        /\ i < j

\* C7: at a frame inside no element's window the tree is the background
\* fill with no children.
C7_BackgroundOnly ==
  \A r \in Renderers :
    (HasRendered(r)
       /\ \A track \in TrackNames :
            \A i \in 1..Len(TrackOf(GivenTracks, track)) :
              ~InWindow(TrackOf(GivenTracks, track)[i], timeline[r]))
    => output[r] = Tree("ok", GivenTracks.globalSettings.backgroundColor, <<>>)

\* a manifest with an element on every track: all three are rendered at
\* frame 0 and frame 3, past every window, is the fill alone
C7_Witness ==
  /\ manifest # Null
  /\ \A track \in TrackNames : Len(TrackOf(manifest, track)) = 1
  /\ timeline["batch"] = 0 /\ Len(output["batch"].children) = 3
  /\ timeline["preview"] = 3
  /\ output["preview"] = Tree("ok", "#102030", <<>>)

\* C8: with no manifest given every frame is rendered, as the black fill an
\* empty manifest with background #000000 gives.
C8_NullManifest ==
  manifest = Null =>
    \A r \in Renderers :
      HasRendered(r) =>
        /\ output[r].status = "ok"
        /\ output[r] =
             VideoComposition(NotRendered,
                              Manifest(<<>>, <<>>, <<>>, "#000000"),
                              timeline[r]).tree

\* the preview has rendered frame 2 without a manifest
C8_Witness ==
  /\ manifest = Null
  /\ timeline["preview"] = 2
  /\ output["preview"] = Tree("ok", "#000000", <<>>)

\* C9: an element with durationFrames <= 0 is never rendered, no render
\* fails, and the elements with durationFrames > 0 are rendered on exactly
\* the frames of their windows.
C9_NonPositiveDurationIgnored ==
  \A r \in Renderers :
    HasRendered(r) =>
      /\ output[r].status = "ok"
      /\ \A track \in TrackNames :
           \A i \in 1..Len(TrackOf(manifest, track)) :
             LET item == TrackOf(manifest, track)[i] IN
             InTree(output[r], track, item.id)
               <=> (item.durationFrames > 0 /\ InWindow(item, timeline[r]))

IsUnknown(el) ==
  el.track = "components" /\ el.item.component \notin KnownComponents

RECURSIVE Keep(_, _)
Keep(s, drop) ==
  IF s = <<>> THEN <<>>
  ELSE (IF drop[1] THEN <<>> ELSE <<Head(s)>>) \o Keep(Tail(s), Tail(drop))

WithoutUnknown(m) ==
  LET c == m.tracks.components IN
  [m EXCEPT !.tracks.components =
     Keep(c, [i \in 1..Len(c) |-> c[i].component \notin KnownComponents])]

\* C10: an active overlay with an unknown component tag renders nothing and
\* leaves one warning naming the tag; the other elements of the frame are
\* the ones, in the order, that the manifest without that overlay gives.
C10_UnknownComponent ==
  \A r \in Renderers :
    HasRendered(r) =>
      LET ch == output[r].children
          unknown == [i \in 1..Len(ch) |-> IsUnknown(ch[i])]
      IN  /\ output[r].status = "ok"
          /\ \A i \in 1..Len(ch) : unknown[i] => ch[i].rendered.tag = "null"
          /\ \A i \in 1..Len(ch) :
               (ch[i].track = "components" /\ ~unknown[i])
                 => ch[i].rendered.tag = ch[i].item.component
          /\ warnings[r] =
               Keep([i \in 1..Len(ch) |->
                       IF unknown[i]
                       THEN <<"Unknown component type", ch[i].item.component>>
                       ELSE <<>>],
                    [i \in 1..Len(ch) |-> ~unknown[i]])
          /\ Keep(ch, unknown) =
               VideoComposition(NotRendered, WithoutUnknown(GivenTracks),
                                timeline[r]).tree.children

\* a frame with a video clip, a Sticker overlay that renders nothing, an
\* audio clip and one warning
C10_Witness ==
  LET ch == output["preview"].children IN
  /\ Len(ch) = 3
  /\ ch[1].track = "video" /\ ch[1].rendered.tag = "Video"
  /\ ch[2].track = "components" /\ ch[2].item.component = "Sticker"
  /\ ch[2].rendered.tag = "null"
  /\ ch[3].track = "audio"
  /\ warnings["preview"] = << <<"Unknown component type", "Sticker">> >>

\* C16: rendering a frame leaves the manifest unchanged: no step of a
\* renderer changes the manifest it was given.
C16_ManifestUnchanged == [][manifest' = manifest]_vars

\* a rendered frame whose children stand in another order than the video
\* track of the manifest, which is still the one given
C16_Witness ==
  /\ HasRendered("preview")
  /\ manifest # Null
  /\ Len(manifest.tracks.video) >= 2
  /\ SortByLayer(manifest.tracks.video) # manifest.tracks.video
  /\ Len(output["preview"].children) = Len(manifest.tracks.video)
  /\ [i \in 1..Len(output["preview"].children) |->
        output["preview"].children[i].item] = SortByLayer(manifest.tracks.video)

-----------------------------------------------------------------------------
(* Properties of the video clip *)

ClipEvaluated == probe.kind = "clip" /\ probe.frame >= 0

\* the same clip evaluated at the next local frame
NextLocalFrame ==
  /\ ClipEvaluated
  /\ probe'.clip = probe.clip
  /\ probe'.frame = probe.frame + 1

\* the clip is on one of its own local frames, 0 .. durationFrames - 1
OnClip == ClipEvaluated /\ probe.frame < probe.clip.durationFrames

InTransitionWindow ==
  ClipEvaluated /\ probe.frame >= probe.clip.durationFrames - TransitionDuration

FadeClip ==
  /\ probe.kind = "clip"
  /\ probe.clip.transition = "fade"
  /\ probe.clip.durationFrames >= TransitionDuration

\* C12: a fade clip of at least 15 frames has opacity 1 at local frame
\* durationFrames - 15, an opacity that does not increase from a local
\* frame of the window to the next, and opacity 1/15, above 0, at its last
\* local frame durationFrames - 1.
C12_FadeOut ==
  /\ [](FadeClip /\ OnClip =>
          /\ probe.frame = probe.clip.durationFrames - TransitionDuration
               => probed.style.opacity = Whole(1)
          /\ probe.frame = probe.clip.durationFrames - 1
               => /\ probed.style.opacity = Rat(1, TransitionDuration)
                  /\ RatLess(Whole(0), probed.style.opacity))
  /\ [][FadeClip /\ InTransitionWindow /\ NextLocalFrame /\ OnClip'
          => RatLeq(probed'.style.opacity, probed.style.opacity)]_vars

\* the last frame of a fade clip longer than its window
C12_Witness ==
  /\ FadeClip
  /\ probe.clip.durationFrames > TransitionDuration
  /\ probe.frame = probe.clip.durationFrames - 1
  /\ probed.style.opacity = Rat(1, TransitionDuration)

IdentityStyle == Style(Whole(1), Unset, Unset)

\* C13: a clip whose transition is cut, omitted or not a known type has
\* opacity 1 and no transform at every local frame, the last 15 included.
C13_CutIsIdentity ==
  (ClipEvaluated /\ probe.clip.transition \in {"cut", "", "wipe"}) =>
     /\ probed.transitionStyle = IdentityStyle
     /\ probed.style.opacity = Whole(1)
     /\ probed.style.transform = Unset

\* the last local frame of a clip without a transition, inside the window
C13_Witness ==
  /\ ClipEvaluated
  /\ probe.clip.transition = ""
  /\ probe.clip.durationFrames > TransitionDuration
  /\ probe.frame = probe.clip.durationFrames - 1
  /\ probed.style.opacity = Whole(1)

\* C17: for every transition type, at every local frame before
\* durationFrames - 15 the transition style is opacity 1 with no transform
\* and no filter.
C17_IdentityBeforeWindow ==
  (ClipEvaluated /\ ~InTransitionWindow) => probed.transitionStyle = IdentityStyle

\* a glitch clip on a local frame before its window
C17_Witness ==
  /\ ClipEvaluated
  /\ probe.clip.transition = "glitch"
  /\ ~InTransitionWindow
  /\ probed.transitionStyle = IdentityStyle

GlitchClip == probe.kind = "clip" /\ probe.clip.transition = "glitch"

Jitter(frame) == <<"translateX", <<"sin", frame * 10, 5>>, "px">>

\* C18 as claimed: a glitch clip carries the jitter translateX(sin(frame *
\* 10) * 5 px) at every local frame of the clip, before the window too.
C18_JitterOnEveryFrame ==
  (GlitchClip /\ OnClip) => probed.style.transform = Jitter(probe.frame)

\* C18: a glitch clip carries the jitter translateX(sin(frame * 10) * 5 px)
\* at every local frame from durationFrames - 15 on, and no transform at
\* the local frames before.
C18_JitterInWindow ==
  GlitchClip /\ ClipEvaluated =>
     /\ InTransitionWindow => probed.style.transform = Jitter(probe.frame)
     /\ ~InTransitionWindow => probed.style.transform = Unset

\* a glitch clip with jitter on the first frame of its window, the frame
\* before which it had none
C18_Witness ==
  /\ GlitchClip
  /\ probe.clip.durationFrames > TransitionDuration
  /\ probe.frame = probe.clip.durationFrames - TransitionDuration
  /\ probed.style.transform = Jitter(probe.frame)

HueRotate == [fn |-> "hue-rotate", value |-> Whole(90), unit |-> "deg"]

HasHueRotate(filter) == \E i \in 1..Len(filter) : filter[i] = HueRotate

\* C19: the style of a glitch clip carries the hue rotation on exactly the
\* local frames with progress > 1/2, the frames from durationFrames - 7 on,
\* with or without effects.
C19_GlitchHueRotate ==
  (GlitchClip /\ OnClip) =>
     (HasHueRotate(probed.style.filter)
        <=> probe.frame >= probe.clip.durationFrames - 7)

\* C20: inside the window progress is (frame - transitionStart) / 15 kept
\* within [0, 1]: 0 at transitionStart, 1 from durationFrames on, and it
\* grows from a local frame to the next until it is 1.
C20_Progress ==
  /\ [](InTransitionWindow =>
          /\ probed.progress =
               IF probe.frame >= probe.clip.durationFrames THEN Whole(1)
               ELSE Norm(probe.frame - probed.transitionStart, TransitionDuration)
          /\ RatLeq(Whole(0), probed.progress)
          /\ RatLeq(probed.progress, Whole(1))
          /\ probe.frame = probed.transitionStart => probed.progress = Whole(0))
  /\ [][InTransitionWindow /\ NextLocalFrame =>
          /\ RatLeq(probed.progress, probed'.progress)
          /\ probed'.progress # Whole(1) => RatLess(probed.progress, probed'.progress)]_vars

\* progress held at 1 on a local frame past the end of the clip
C20_Witness ==
  /\ ClipEvaluated
  /\ probe.clip.durationFrames > TransitionDuration
  /\ probe.frame > probe.clip.durationFrames
  /\ probed.progress = Whole(1)

-----------------------------------------------------------------------------
(* One overlay evaluated on its own, frame by frame: ComponentRenderer as *)
(* a function of the overlay and the local frame                          *)

MaxText == 3

MaxOverlayFrame == 31

Letters == <<"a", "b", "c", "d", "e">>

Texts == {SubSeq(Letters, 1, n) : n \in 0..MaxText}

Animations == {"fade", "slide-up", "scale", "typewriter", "none"}

BigTitleProps ==
  {[text |-> text] : text \in Texts}
    \cup {[text |-> text, animation |-> a] : text \in Texts, a \in Animations}

\* word boundaries in seconds
Times == {Rat(0, 1), Rat(1, 3), Rat(1, 2), Rat(1, 1)}

WordLists ==
  {<<Word("Hi", s, e)>> : s \in Times, e \in Times}
    \cup {<<Word("Hi", s, e), Word("there", s2, e2)>> :
            s \in Times, e \in Times, s2 \in Times, e2 \in Times}

KaraokeTextProps == {[wordTimestamps |-> words] : words \in WordLists}

ImageOverlayProps ==
  {[src |-> "logo.png"]}
    \cup {[src |-> "logo.png", opacity |-> o] : o \in {Whole(0), Rat(1, 2), Whole(1)}}

LowerThirdProps ==
  {[title |-> "Title"], [title |-> "Title", subtitle |-> "Subtitle"]}
    \cup {[title |-> "Title", position |-> p] : p \in {"left", "right", "center"}}
    \cup {[title |-> "Title", subtitle |-> "Subtitle", position |-> p] :
            p \in {"left", "right", "center"}}

ProbeOverlays ==
  {Overlay("c1", 0, MaxOverlayFrame + 1, 1, "BigTitle", props) : props \in BigTitleProps}
    \cup {Overlay("c1", 0, MaxOverlayFrame + 1, 1, "ImageOverlay", props) :
            props \in ImageOverlayProps}
    \cup {Overlay("c1", 0, MaxOverlayFrame + 1, 1, "LowerThird", props) :
            props \in LowerThirdProps}
    \cup {Overlay("c1", 0, MaxOverlayFrame + 1, 1, "KaraokeText", props) :
            props \in KaraokeTextProps}

OverlayFrames == 0..MaxOverlayFrame

InitOverlay ==
  /\ manifest = Null
  /\ NotStarted
  /\ \E component \in ProbeOverlays :
       probe = [kind |-> "overlay", component |-> component, frame |-> -1]
  /\ probed = NoProbe
  /\ NoServer

\* the element the overlay renders to, or the error it throws
EvaluateOverlay(frame) ==
  /\ probe' = [probe EXCEPT !.frame = frame]
  /\ probed' = IF ComponentThrows(probe.component, frame)
               THEN [status |-> "error", rendered |-> Unset]
               ELSE [status |-> "ok",
                     rendered |-> ComponentRenderer(probe.component, frame)]
  /\ UNCHANGED <<manifest, timeline, output, warnings,
                 generationJob, asset, requests, falJob>>

PlayOverlay == probe.frame + 1 \in OverlayFrames /\ EvaluateOverlay(probe.frame + 1)

SeekOverlay == \E frame \in OverlayFrames : EvaluateOverlay(frame)

NextOverlay == PlayOverlay \/ SeekOverlay

SpecOverlay == InitOverlay /\ [][NextOverlay]_vars

-----------------------------------------------------------------------------
(* Properties of the overlays *)

OverlayEvaluated(tag) ==
  probe.kind = "overlay" /\ probe.frame >= 0 /\ probe.component.component = tag

Typewriter ==
  /\ probe.kind = "overlay"
  /\ probe.component.component = "BigTitle"
  /\ HasProp(probe.component.props, "animation")
  /\ probe.component.props.animation = "typewriter"

Shown == Len(probed.rendered.content[1].displayText)

\* C14: a BigTitle with the typewriter animation shows the first
\* min(floor(frame / 3), len(text)) characters of its text: none at local
\* frame 0, all of them from frame 3 * len(text) on, and never fewer than
\* on the frame before.
C14_Typewriter ==
  /\ [](Typewriter /\ probe.frame >= 0 =>
          LET text == probe.component.props.text IN
          /\ probed.status = "ok"
          /\ probed.rendered.content[1].displayText =
               SubSeq(text, 1, Min(probe.frame \div 3, Len(text)))
          /\ probe.frame = 0 => Shown = 0
          /\ probe.frame >= 3 * Len(text) => Shown = Len(text))
  /\ [][(Typewriter /\ probe.frame >= 0 /\ probe'.frame = probe.frame + 1)
          => (probed.status = "ok" /\ probed'.status = "ok" /\ Shown <= Shown')]_vars

\* start <= frame / Fps and frame / Fps <= end, without division
AtOrAfter(frame, time) == time[2] * Fps <= frame * time[3]
AtOrBefore(frame, time) == frame * time[3] <= time[2] * Fps

HiThere == <<Word("Hi", Rat(0, 1), Rat(1, 2)), Word("there", Rat(1, 2), Rat(1, 1))>>

\* C15: at local frame n of a KaraokeText, with t = n / fps, a word is
\* active iff start <= t <= end, past iff t > end and base otherwise; at 30
\* fps with Hi [0, 0.5] and there [0.5, 1.0], frame 10 has Hi active and
\* there neither active nor past, frame 20 has Hi past and there active.
C15_KaraokeWordState ==
  OverlayEvaluated("KaraokeText") =>
    LET words == probe.component.props.wordTimestamps
        spans == probed.rendered.content
    IN  /\ probed.status = "ok"
        /\ Len(spans) = Len(words)
        /\ \A i \in 1..Len(words) :
             /\ spans[i].word = words[i].word
             /\ spans[i].isActive <=> (AtOrAfter(probe.frame, words[i].start)
                                         /\ AtOrBefore(probe.frame, words[i].end))
             /\ spans[i].isPast <=> ~AtOrBefore(probe.frame, words[i].end)
             /\ spans[i].highlighted <=> (spans[i].isActive \/ spans[i].isPast)
        /\ (words = HiThere /\ probe.frame = 10) =>
             /\ spans[1].isActive
             /\ ~spans[2].isActive /\ ~spans[2].isPast
        /\ (words = HiThere /\ probe.frame = 20) =>
             /\ spans[1].isPast /\ ~spans[1].isActive
             /\ spans[2].isActive

\* frame 20 of the two words at 30 fps: Hi is past, there is active
C15_Witness ==
  /\ OverlayEvaluated("KaraokeText")
  /\ probe.component.props.wordTimestamps = HiThere
  /\ probe.frame = 20
  /\ probed.rendered.content[1].isPast
  /\ probed.rendered.content[2].isActive

-----------------------------------------------------------------------------
(* Overlays whose props may not have the shape their component tag asks   *)
(* for, rendered by the composition                                       *)

\* the props the component reads without a default are given
PropsMatch(component) ==
  CASE component.component = "KaraokeText" -> HasProp(component.props, "wordTimestamps")
    [] component.component = "BigTitle" -> HasProp(component.props, "text")
    [] component.component = "ImageOverlay" -> HasProp(component.props, "src")
    [] component.component = "LowerThird" -> HasProp(component.props, "title")
    [] OTHER -> TRUE

AnyProps ==
  {PropsOf("KaraokeText"), PropsOf("BigTitle"), PropsOf("LowerThird"),
   [animation |-> "typewriter"], [animation |-> "fade"], <<>>}

PropsManifests ==
  {Manifest(<<VideoClip("v1", 0, 2, 1, "cut")>>, <<>>,
            <<Overlay("c1", s, d, 1, c, props)>>, "#102030") :
     s \in StartFrames, d \in Durations, c \in {"KaraokeText", "BigTitle"},
     props \in AnyProps}

InitProps == manifest \in PropsManifests /\ Start

SpecProps == InitProps /\ [][Next]_vars

Mismatched(r) ==
  {i \in 1..Len(manifest.tracks.components) :
     /\ SequenceActive(manifest.tracks.components[i], timeline[r])
     /\ ~PropsMatch(manifest.tracks.components[i])}

\* C11: an overlay whose props do not match its component tag never aborts
\* the frame: the frame is rendered, the overlay is in it with nothing to
\* show, a diagnostic is recorded, and the video clip of the frame is
\* composited as it is without the overlay.
C11_MismatchedPropsBlank ==
  \A r \in Renderers :
    (HasRendered(r) /\ Mismatched(r) # {}) =>
      /\ output[r].status = "ok"
      /\ \A i \in Mismatched(r) :
           \E k \in 1..Len(output[r].children) :
             /\ output[r].children[k].item = manifest.tracks.components[i]
             /\ output[r].children[k].rendered.content = <<>>
      /\ warnings[r] # <<>>
      /\ \A k \in 1..Len(output[r].children) :
           output[r].children[k].track = "video" =>
             output[r].children[k].rendered =
               VideoClipComponent(output[r].children[k].item,
                                  LocalFrame(output[r].children[k].item, timeline[r]))

-----------------------------------------------------------------------------
(* Properties of the video clip: mappings, effects, short clips *)

\* min((frame - transitionStart) / 15, 1), from the frame alone
ReferenceProgress ==
  LET elapsed == probe.frame - (probe.clip.durationFrames - TransitionDuration) IN
  IF elapsed >= TransitionDuration THEN Whole(1) ELSE Norm(elapsed, TransitionDuration)

\* C21: inside the window, with p the progress, slide-left translates by
\* -100 p percent, slide-right by +100 p percent, and zoom scales by
\* 1 + p / 2 with opacity 1 - p; at p = 0 each is the identity.
C21_SlideZoomMapping ==
  (InTransitionWindow /\ probe.clip.transition \in {"slide-left", "slide-right", "zoom"}) =>
    LET p == ReferenceProgress
        t == probed.transitionStyle
    IN  /\ probe.clip.transition = "slide-left" =>
             t = Style(Unset, <<"translateX", Norm(-100 * Num(p), Den(p)), "%">>, Unset)
        /\ probe.clip.transition = "slide-right" =>
             t = Style(Unset, <<"translateX", Norm(100 * Num(p), Den(p)), "%">>, Unset)
        /\ probe.clip.transition = "zoom" =>
             t = Style(Norm(Den(p) - Num(p), Den(p)),
                       <<"scale", Norm(2 * Den(p) + Num(p), 2 * Den(p)), "">>,
                       Unset)
        /\ probed.style.opacity = t.opacity
        /\ probed.style.transform = t.transform
        /\ p = Whole(0) =>
             /\ t.transform \in {<<"translateX", Whole(0), "%">>, <<"scale", Whole(1), "">>}
             /\ t.opacity \in {Unset, Whole(1)}

\* a zoom clip one third into its window: scale 7/6, opacity 2/3
C21_Witness ==
  /\ ClipEvaluated
  /\ probe.clip.transition = "zoom"
  /\ probe.frame = probe.clip.durationFrames - TransitionDuration + 5
  /\ probed.transitionStyle = Style(Rat(2, 3), <<"scale", Rat(7, 6), "">>, Unset)

RecognisedEffects == {"brightness", "contrast", "saturation", "blur", "grayscale"}

Primitive(effect) ==
  CASE effect.type = "brightness" -> [fn |-> "brightness", value |-> effect.value, unit |-> ""]
    [] effect.type = "contrast" -> [fn |-> "contrast", value |-> effect.value, unit |-> ""]
    [] effect.type = "saturation" -> [fn |-> "saturate", value |-> effect.value, unit |-> ""]
    [] effect.type = "blur" -> [fn |-> "blur", value |-> effect.value, unit |-> "px"]
    [] effect.type = "grayscale" -> [fn |-> "grayscale", value |-> effect.value, unit |-> ""]

IsRecognised(effect) == effect.type \in RecognisedEffects

\* C22: the effects filter of a clip has one primitive for each effects
\* entry of a recognised type, in the order of the entries, at every local
\* frame and for every transition; without such an entry there is no filter.
C22_EffectsChain ==
  ClipEvaluated =>
    LET recognised == SelectSeq(probe.clip.effects, IsRecognised) IN
    /\ Len(probed.style.filter) = Len(recognised)
    /\ \A i \in 1..Len(recognised) : probed.style.filter[i] = Primitive(recognised[i])
    /\ recognised = <<>> => probed.style.filter = Unset

\* four effects, one of an unknown type, on a glitch clip late in its
\* window: three primitives in the order given
C22_Witness ==
  /\ ClipEvaluated
  /\ probe.clip.transition = "glitch"
  /\ probe.frame = probe.clip.durationFrames - 1
  /\ Len(probe.clip.effects) = 4
  /\ probed.style.filter =
       <<[fn |-> "saturate", value |-> Whole(2), unit |-> ""],
         [fn |-> "contrast", value |-> Rat(1, 2), unit |-> ""],
         [fn |-> "grayscale", value |-> Whole(1), unit |-> ""]>>

ShortClip ==
  /\ probe.kind = "clip"
  /\ probe.clip.durationFrames < TransitionDuration

\* C27: a clip of fewer than 15 frames has a negative transitionStart, is
\* inside its window on every local frame, and has progress
\* (15 - durationFrames) / 15 > 0 at local frame 0; as a fade clip it starts
\* at opacity durationFrames / 15 and is below opacity 1 on every frame.
C27_ShortClip ==
  (ShortClip /\ OnClip) =>
    /\ probed.transitionStart < 0
    /\ InTransitionWindow
    /\ probe.frame = 0 =>
         /\ probed.progress =
              Norm(TransitionDuration - probe.clip.durationFrames, TransitionDuration)
         /\ RatLess(Whole(0), probed.progress)
    /\ probe.clip.transition = "fade" =>
         /\ probe.frame = 0 =>
              probed.style.opacity = Norm(probe.clip.durationFrames, TransitionDuration)
         /\ RatLess(probed.style.opacity, Whole(1))

\* the first frame of a fade clip of 6 frames: opacity 2/5
C27_Witness ==
  /\ ShortClip /\ OnClip
  /\ probe.clip.transition = "fade"
  /\ probe.clip.durationFrames = 6
  /\ probe.frame = 0
  /\ probed.style.opacity = Rat(2, 5)

-----------------------------------------------------------------------------
(* Properties of the overlays: entrance animations *)

NextOverlayFrame ==
  /\ probe.kind = "overlay" /\ probe.frame >= 0
  /\ probe'.component = probe.component
  /\ probe'.frame = probe.frame + 1

\* frame / frames up to 1, times target
Ramp(frame, frames, target) ==
  IF frame >= frames THEN target
  ELSE Norm(frame * Num(target), frames * Den(target))

EntranceFrames(animation) == IF animation = "fade" THEN 20 ELSE 10

FadingTitle ==
  /\ probe.kind = "overlay"
  /\ probe.component.component = "BigTitle"
  /\ Prop(probe.component.props, "animation", "fade") \in {"fade", "slide-up", "scale"}

TitleOpacity == probed.rendered.content[1].style.opacity

\* C23: the opacity of a BigTitle is min(frame / 20, 1) with the fade
\* animation and min(frame / 10, 1) with slide-up and scale: 0 at local
\* frame 0, 1 from frame 20 (10) on, never above 1 and never lower than on
\* the frame before.
C23_TitleOpacity ==
  /\ [](FadingTitle /\ probe.frame >= 0 =>
          LET frames == EntranceFrames(Prop(probe.component.props, "animation", "fade")) IN
          /\ probed.status = "ok"
          /\ TitleOpacity = Ramp(probe.frame, frames, Whole(1))
          /\ probe.frame = 0 => TitleOpacity = Whole(0)
          /\ probe.frame >= frames => TitleOpacity = Whole(1)
          /\ RatLeq(TitleOpacity, Whole(1)))
  /\ [][FadingTitle /\ NextOverlayFrame => RatLeq(TitleOpacity, TitleOpacity')]_vars

\* a slide-up title halfway through its fade, at local frame 5
C23_Witness ==
  /\ FadingTitle
  /\ probe.component.props = [text |-> <<"a", "b">>, animation |-> "slide-up"]
  /\ probe.frame = 5
  /\ TitleOpacity = Rat(1, 2)

Image == probe.kind = "overlay" /\ probe.component.component = "ImageOverlay"

ImageOpacity == probed.rendered.content[1].opacity

\* C24: the opacity of an ImageOverlay is target * min(frame / 15, 1): 0 at
\* local frame 0, the target opacity from frame 15 on, never above the
\* target and never lower than on the frame before.
C24_ImageOpacity ==
  /\ [](Image /\ probe.frame >= 0 =>
          LET target == Prop(probe.component.props, "opacity", Whole(1)) IN
          /\ probed.status = "ok"
          /\ ImageOpacity = Ramp(probe.frame, 15, target)
          /\ probe.frame = 0 => ImageOpacity = Whole(0)
          /\ probe.frame >= 15 => ImageOpacity = target
          /\ RatLeq(ImageOpacity, target))
  /\ [][Image /\ NextOverlayFrame => RatLeq(ImageOpacity, ImageOpacity')]_vars

\* an image of target opacity 1/2 at local frame 5: opacity 1/6
C24_Witness ==
  /\ Image
  /\ probe.component.props = [src |-> "logo.png", opacity |-> Rat(1, 2)]
  /\ probe.frame = 5
  /\ ImageOpacity = Rat(1, 6)

Lower == probe.kind = "overlay" /\ probe.component.component = "LowerThird"

\* C25: a LowerThird starts displaced towards the edge its position names:
\* to the left of its rest position with position left, to the right of
\* it with position right.
C25_SlideFromEdge ==
  (Lower /\ probe.frame = 0) =>
    LET position == Prop(probe.component.props, "position", "left")
        slideX == probed.rendered.content[1].slideX
    IN  /\ position = "left" =>
             /\ RatLess(slideX, Whole(0))
             /\ probed.rendered.content[1].style.transform = <<"translateX", slideX, "px">>
        /\ position = "right" =>
             /\ RatLess(Whole(0), slideX)
             /\ probed.rendered.content[1].style.transform = <<"translateX", slideX, "px">>

\* C26: the opacity of the subtitle of a LowerThird is 0 at every local
\* frame up to 10, (frame - 10) / 10 up to frame 20 and 1 afterwards, never
\* outside [0, 1], whatever the position the block slides from.
C26_SubtitleOpacity ==
  (Lower /\ probe.frame >= 0 /\ HasProp(probe.component.props, "subtitle")) =>
    LET subtitle == probed.rendered.content[1].subtitle IN
    /\ Len(subtitle) = 1
    /\ subtitle[1].opacity =
         IF probe.frame <= 10 THEN Whole(0)
         ELSE Ramp(probe.frame - 10, 10, Whole(1))
    /\ RatLeq(Whole(0), subtitle[1].opacity)
    /\ RatLeq(subtitle[1].opacity, Whole(1))

-----------------------------------------------------------------------------
(* Properties of the karaoke words over time *)

Karaoke == probe.kind = "overlay" /\ probe.component.component = "KaraokeText"

\* base 0, active 1, past 2; 3 for a word that is active and past at once
HighlightRank(span) ==
  CASE span.isActive /\ span.isPast -> 3
    [] span.isActive -> 1
    [] span.isPast -> 2
    [] OTHER -> 0

WellFormed(wordData) == RatLeq(wordData.start, wordData.end)

\* C28: a karaoke word with start <= end is never active and past on one
\* frame, and from a local frame to the next its state stays or moves
\* forward in the order base, active, past.
C28_HighlightForward ==
  /\ [](Karaoke /\ probe.frame >= 0 =>
          \A i \in 1..Len(probe.component.props.wordTimestamps) :
            WellFormed(probe.component.props.wordTimestamps[i])
              => ~(probed.rendered.content[i].isActive /\ probed.rendered.content[i].isPast))
  /\ [][Karaoke /\ NextOverlayFrame =>
          \A i \in 1..Len(probe.component.props.wordTimestamps) :
            WellFormed(probe.component.props.wordTimestamps[i])
              => HighlightRank(probed.rendered.content[i])
                   <= HighlightRank(probed'.rendered.content[i])]_vars

\* a word on [1/3, 1/2] seen past at local frame 16, one frame after it
\* was last active
C28_Witness ==
  /\ Karaoke
  /\ probe.component.props.wordTimestamps = <<Word("Hi", Rat(1, 3), Rat(1, 2))>>
  /\ probe.frame = 16
  /\ probed.rendered.content[1].isPast
  /\ ~probed.rendered.content[1].isActive

\* C29: when the end of a karaoke word equals the start of the next and
\* frame / fps equals that boundary, both words are active on that frame,
\* as at frame 15 at 30 fps with the boundary 0.5.
C29_SharedBoundary ==
  (Karaoke /\ probe.frame >= 0) =>
    LET words == probe.component.props.wordTimestamps IN
    \A i \in 1..(Len(words) - 1) :
      ( /\ WellFormed(words[i]) /\ WellFormed(words[i + 1])
        /\ words[i].end = words[i + 1].start
        /\ probe.frame * Den(words[i].end) = Num(words[i].end) * Fps )
        => /\ probed.rendered.content[i].isActive
           /\ probed.rendered.content[i + 1].isActive

\* Hi [0, 0.5] and there [0.5, 1.0] at local frame 15: both active
C29_Witness ==
  /\ Karaoke
  /\ probe.component.props.wordTimestamps = HiThere
  /\ probe.frame = 15
  /\ probed.rendered.content[1].isActive
  /\ probed.rendered.content[2].isActive

-----------------------------------------------------------------------------
(* Status polls of a motion-control generation job,                       *)
(* motion-control.server.ts 139-269.  Every await of the handler is a     *)
(* step; requests of the same job interleave at these steps.              *)

MaxPolls == 2

MaxAssets == 3

Pollers == 1..MaxPolls

Users == {"owner", "other"}

JobIds == {"job1", "job2"}

Idle(response) == [pc |-> "idle", falStatus |-> "none", assetId |-> 0, response |-> response]

\* the job generateMotionControlFn stored (100-121), owned by "owner", and
\* the request the provider holds for it
InitPoll ==
  /\ manifest = Null
  /\ NotStarted
  /\ probe = NoProbe
  /\ probed = NoProbe
  /\ \E urls \in BOOLEAN :
       generationJob = [id |-> "job1", userId |-> "owner", status |-> "pending",
                        progress |-> 0, output |-> 0, error |-> "", hasUrls |-> urls]
  /\ asset = <<>>
  /\ requests = [p \in Pollers |-> Idle("none")]
  /\ falJob = [status |-> "pending", video |-> FALSE]

Respond(p, response) == requests' = [requests EXCEPT ![p] = Idle(response)]

Goto(p, pc) == requests' = [requests EXCEPT ![p].pc = pc]

\* lines 143-169: a request arrives, findUnique, the checks on the job read
FindJob(p) ==
  /\ requests[p].pc = "idle"
  /\ \E user \in Users, jobId \in JobIds :
       CASE jobId # generationJob.id -> Respond(p, "Job not found")
         [] generationJob.userId # user -> Respond(p, "Unauthorized")
         [] generationJob.status \in {"completed", "failed"} ->
              Respond(p, generationJob.status)
         [] ~generationJob.hasUrls -> Respond(p, "Job is missing Fal.ai URLs")
         [] OTHER -> Goto(p, "getUserFalApiKey")
  /\ UNCHANGED <<manifest, timeline, output, warnings, probe, probed,
                 generationJob, asset, falJob>>

\* line 172
GetUserFalApiKey(p) ==
  /\ requests[p].pc = "getUserFalApiKey"
  /\ Goto(p, "getJobStatus")
  /\ UNCHANGED <<manifest, timeline, output, warnings, probe, probed,
                 generationJob, asset, falJob>>

\* lines 173-177 and the branch taken on the answer (180-185, 229, 251)
GetJobStatus(p) ==
  /\ requests[p].pc = "getJobStatus"
  /\ requests' = [requests EXCEPT
       ![p].falStatus = falJob.status,
       ![p].pc = CASE falJob.status = "completed" /\ falJob.video -> "createAsset"
                   [] falJob.status = "failed" -> "updateFailed"
                   [] OTHER -> "updateProgress"]
  /\ UNCHANGED <<manifest, timeline, output, warnings, probe, probed,
                 generationJob, asset, falJob>>

\* lines 188-207: prisma.asset.create
CreateAsset(p) ==
  /\ requests[p].pc = "createAsset"
  /\ Len(asset) < MaxAssets
  /\ asset' = Append(asset, [id |-> Len(asset) + 1, userId |-> generationJob.userId,
                             jobId |-> generationJob.id])
  /\ requests' = [requests EXCEPT ![p].pc = "updateCompleted",
                                  ![p].assetId = Len(asset) + 1]
  /\ UNCHANGED <<manifest, timeline, output, warnings, probe, probed,
                 generationJob, falJob>>

\* lines 210-230
UpdateCompleted(p) ==
  /\ requests[p].pc = "updateCompleted"
  /\ generationJob' = [generationJob EXCEPT !.status = "completed", !.progress = 100,
                                            !.output = requests[p].assetId]
  /\ Respond(p, "completed")
  /\ UNCHANGED <<manifest, timeline, output, warnings, probe, probed, asset, falJob>>

\* lines 234-250
UpdateFailed(p) ==
  /\ requests[p].pc = "updateFailed"
  /\ generationJob' = [generationJob EXCEPT !.status = "failed",
                                            !.error = "Motion control generation failed"]
  /\ Respond(p, "failed")
  /\ UNCHANGED <<manifest, timeline, output, warnings, probe, probed, asset, falJob>>

\* lines 252-269
UpdateProgress(p) ==
  /\ requests[p].pc = "updateProgress"
  /\ LET status == IF requests[p].falStatus = "processing" THEN "processing" ELSE "pending" IN
     /\ generationJob' = [generationJob EXCEPT
          !.status = status,
          !.progress = IF status = "processing" THEN 50 ELSE 10]
     /\ Respond(p, status)
  /\ UNCHANGED <<manifest, timeline, output, warnings, probe, probed, asset, falJob>>

\* the provider works on the request: queued, in progress, then completed
\* (with or without a video url in the result) or failed
FalAdvance ==
  /\ \/ /\ falJob.status = "pending"
        /\ falJob' = [falJob EXCEPT !.status = "processing"]
     \/ /\ falJob.status = "processing"
        /\ \E video \in BOOLEAN : falJob' = [status |-> "completed", video |-> video]
     \/ /\ falJob.status = "processing"
        /\ falJob' = [falJob EXCEPT !.status = "failed"]
  /\ UNCHANGED <<manifest, timeline, output, warnings, probe, probed,
                 generationJob, asset, requests>>

getMotionControlJobStatusFn(p) ==
  \/ FindJob(p)
  \/ GetUserFalApiKey(p)
  \/ GetJobStatus(p)
  \/ CreateAsset(p)
  \/ UpdateCompleted(p)
  \/ UpdateFailed(p)
  \/ UpdateProgress(p)

NextPoll == FalAdvance \/ \E p \in Pollers : getMotionControlJobStatusFn(p)

SpecPoll == InitPoll /\ [][NextPoll]_vars

\* C30: however the status polls of its owner interleave, at most one
\* asset record is ever created for a generation job.
C30_OneAssetPerJob ==
  Cardinality({i \in 1..Len(asset) : asset[i].jobId = "job1"}) <= 1

====
